---- MODULE Spec2Model ----
(***************************************************************************)
(* Model of the led_cube crate (src/lib.rs): a Cube owns a 16-byte pattern *)
(* buffer `state` and a serial `port`.  set/get/clear work on the buffer   *)
(* only; flush hands the buffer to the port in one write call.             *)
(*                                                                         *)
(* Coordinates are Rust arrays [x, y, z] indexed from 0; here they are     *)
(* tuples <<x, y, z>> indexed from 1, so pos[0] is pos[1] below and the    *)
(* buffer byte with Rust index i is state[i + 1].                          *)
(***************************************************************************)
EXTENDS Integers, Sequences, FiniteSets, TLC

\* ------------------------------------------------------------------------
\* Program constants
\* ------------------------------------------------------------------------

\* state: [u8; 16]
BufLen == 16

\* check_bounds: every component < 4
Side == 4

\* u8 arithmetic is modulo 2^8
ByteMod == 256

\* ------------------------------------------------------------------------
\* Bounds of the model
\* ------------------------------------------------------------------------

\* largest coordinate component a caller supplies (Side and above are out of range)
MaxCoord == 4

\* number of transport write calls after which the caller stops flushing
MaxWrites == 3

\* a byte count a transport may accept that is shorter than the buffer
ShortLen == 7

\* ------------------------------------------------------------------------
\* u8 bit operations
\* ------------------------------------------------------------------------

Pow2(k) == 2 ^ k

Bit(n, i) == (n \div Pow2(i)) % 2

RECURSIVE BitCombine(_, _, _, _)
\* combine bits i..7 of a and b with the truth table tt (indexed by 2*bitA + bitB + 1)
BitCombine(a, b, tt, i) ==
    IF i > 7 THEN 0
    ELSE tt[2 * Bit(a, i) + Bit(b, i) + 1] * Pow2(i) + BitCombine(a, b, tt, i + 1)

\* a | b
BitOr(a, b) == BitCombine(a, b, <<0, 1, 1, 1>>, 0)

\* a & b
BitAnd(a, b) == BitCombine(a, b, <<0, 0, 0, 1>>, 0)

\* !a on u8
BitNot(a) == (ByteMod - 1) - a

\* a << k on u8 (k < 8)
Shl(a, k) == (a * Pow2(k)) % ByteMod

\* ------------------------------------------------------------------------
\* Coordinates and addressing
\* ------------------------------------------------------------------------

\* CubePosition values a caller may pass
AllPos == (0..MaxCoord) \X (0..MaxCoord) \X (0..MaxCoord)

\* the positions of the 4x4x4 cube
ValidPos == (0..(Side - 1)) \X (0..(Side - 1)) \X (0..(Side - 1))

\* check_bounds with the test of pos[0] left out
check_bounds_no_x(pos) == pos[2] < Side /\ pos[3] < Side

\* assert!(pos[0] < 4 && pos[1] < 4 && pos[2] < 4)
check_bounds(pos) == pos[1] < Side /\ pos[2] < Side /\ pos[3] < Side

\* the lookup table of invert4
invert4_table == <<3, 2, 1, 0>>

\* indexing the table with n panics unless n is one of its indices
invert4_ok(n) == (n + 1) \in DOMAIN invert4_table

\* invert4 without the inversion
invert4_identity(n) == n

\* [3, 2, 1, 0][n]
invert4(n) == invert4_table[n + 1]

\* pattern_idx with a row stride of 3 instead of 4
pattern_idx_stride3(pos) == 3 * invert4(pos[2]) + invert4(pos[3])

\* set: let pattern_idx = 4 * invert4(pos[1]) + invert4(pos[2])
pattern_idx(pos) == 4 * invert4(pos[2]) + invert4(pos[3])

\* mask taken from pos[1] instead of pos[0]
mask_wrong_axis(pos) == Shl(1, invert4(pos[2]))

\* mask shifted by 4 - pos[0] instead of 3 - pos[0]
mask_off_by_one(pos) == Shl(1, Side - pos[1])

\* mask shifted by pos[0] itself, without the inversion
mask_no_invert(pos) == Shl(1, pos[1])

\* set: let mask = 1 << invert4(pos[0])
mask(pos) == Shl(1, invert4(pos[1]))

\* get: the index expression 4 * invert4(pos[1]) + invert4(pos[2])
get_idx(pos) == 4 * invert4(pos[2]) + invert4(pos[3])

\* get: the mask expression 1 << invert4(pos[0])
get_mask(pos) == Shl(1, invert4(pos[1]))

\* ------------------------------------------------------------------------
\* Buffers
\* ------------------------------------------------------------------------

\* the all-zero array literal of new and clear
ZeroState == [i \in 1..BufLen |-> 0]

\* no buffer index was addressed
NoIdx == 0 - 1

\* set whose else branch is "&= mask" instead of "&= !mask"
set_and_mask(st, pos, v) ==
    IF ~check_bounds(pos)
    THEN [res |-> "panic", state |-> st, idx |-> NoIdx, mask |-> 0]
    ELSE LET i == pattern_idx(pos)
             m == mask(pos)
             b == IF v THEN BitOr(st[i + 1], m)
                       ELSE BitAnd(st[i + 1], m)
         IN [res |-> "unit", state |-> [st EXCEPT ![i + 1] = b], idx |-> i, mask |-> m]

\* set whose then branch is "= mask" instead of "|= mask"
set_assign_mask(st, pos, v) ==
    IF ~check_bounds(pos)
    THEN [res |-> "panic", state |-> st, idx |-> NoIdx, mask |-> 0]
    ELSE LET i == pattern_idx(pos)
             m == mask(pos)
             b == IF v THEN m
                       ELSE BitAnd(st[i + 1], BitNot(m))
         IN [res |-> "unit", state |-> [st EXCEPT ![i + 1] = b], idx |-> i, mask |-> m]

\* outcome of set(pos, v) on buffer st: the new buffer, the index and mask used,
\* or a panic (failed assertion, or table index out of bounds) with the
\* buffer index addressed before the panic, if any
set(st, pos, v) ==
    IF ~check_bounds(pos)
    THEN [res |-> "panic", state |-> st, idx |-> NoIdx, mask |-> 0]
    ELSE IF ~(invert4_ok(pos[2]) /\ invert4_ok(pos[3]) /\ invert4_ok(pos[1]))
    THEN [res |-> "panic", state |-> st, idx |-> NoIdx, mask |-> 0]
    ELSE IF pattern_idx(pos) + 1 \notin DOMAIN st
    THEN [res |-> "panic", state |-> st, idx |-> pattern_idx(pos), mask |-> mask(pos)]
    ELSE LET i == pattern_idx(pos)
             m == mask(pos)
             b == IF v THEN BitOr(st[i + 1], m)
                       ELSE BitAnd(st[i + 1], BitNot(m))
         IN [res |-> "unit", state |-> [st EXCEPT ![i + 1] = b], idx |-> i, mask |-> m]

\* outcome of get(pos) on buffer st; the byte is read before the mask is computed
get(st, pos) ==
    IF ~check_bounds(pos)
    THEN [res |-> "panic", state |-> st, idx |-> NoIdx, mask |-> 0]
    ELSE IF ~(invert4_ok(pos[2]) /\ invert4_ok(pos[3]))
    THEN [res |-> "panic", state |-> st, idx |-> NoIdx, mask |-> 0]
    ELSE IF get_idx(pos) + 1 \notin DOMAIN st
    THEN [res |-> "panic", state |-> st, idx |-> get_idx(pos), mask |-> 0]
    ELSE IF ~invert4_ok(pos[1])
    THEN [res |-> "panic", state |-> st, idx |-> get_idx(pos), mask |-> 0]
    ELSE LET i == get_idx(pos)
             m == get_mask(pos)
         IN [res |-> IF BitAnd(st[i + 1], m) # 0 THEN "true" ELSE "false",
             state |-> st, idx |-> i, mask |-> m]

\* ------------------------------------------------------------------------
\* Transport
\* ------------------------------------------------------------------------

\* results of serial::open
OpenResults == {"ok", "err"}

\* io::Result<usize> of port.write(buf): Err(_) is WriteErr, Ok(n) is n
WriteErr == 0 - 1

\* no write call has been made yet
NoWrite == 0 - 2

\* results of port.write(buf): an error, or the number of bytes accepted
WriteResults == {WriteErr, ShortLen, BufLen}

\* a flush that maps every write result, errors included, to Ok
flush_result_always_ok(w) == "ok"

\* self.port.write(&self.state).map(|_| {}): the byte count is discarded
flush_result(w) == IF w = WriteErr THEN "err" ELSE "ok"

\* ------------------------------------------------------------------------
\* State
\* ------------------------------------------------------------------------

VARIABLES
    pc,       \* "start" | "connected" | "failed" (new returned Err) | "panicked"
    state,    \* Cube.state
    port,     \* Cube.port: "closed" | "open"
    wbuf,     \* argument of the latest write call on the port (<<>> before the first)
    wres,     \* result of the latest write call (NoWrite before the first)
    nwrites,  \* number of write calls made on the port
    nflush,   \* number of flush calls made by the caller (not counting new's)
    led,      \* value passed by the latest set of each position since new/clear
    last      \* the latest call: operation, arguments, result, buffer cell addressed

vars == <<pc, state, port, wbuf, wres, nwrites, nflush, led, last>>

Call(op, pos, val, res, idx, m) ==
    [op |-> op, pos |-> pos, val |-> val, res |-> res, idx |-> idx, mask |-> m]

NoPos == <<>>

AllOff == [c \in ValidPos |-> FALSE]

\* the bytes of the latest write call that the transport accepted
Device ==
    IF wres \in 0..BufLen THEN SubSeq(wbuf, 1, wres) ELSE <<>>

Init ==
    /\ pc = "start"
    /\ state = ZeroState
    /\ port = "closed"
    /\ wbuf = <<>>
    /\ wres = NoWrite
    /\ nwrites = 0
    /\ nflush = 0
    /\ led = AllOff
    /\ last = Call("none", NoPos, FALSE, "none", NoIdx, 0)

\* ------------------------------------------------------------------------
\* Operations
\* ------------------------------------------------------------------------

\* a write call that passes all but the last byte of the buffer
PortWriteTruncated(buf, w) ==
    /\ wbuf' = SubSeq(buf, 1, BufLen - 1)
    /\ wres' = w
    /\ nwrites' = nwrites + 1

\* the write call of flush: the whole buffer is the argument
PortWrite(buf, w) ==
    /\ wbuf' = buf
    /\ wres' = w
    /\ nwrites' = nwrites + 1

\* a new that returns the cube without the initial flush
NewWithoutFlush(o, w) ==
    /\ pc = "start"
    /\ IF o = "err"
       THEN /\ pc' = "panicked"
            /\ last' = Call("new", NoPos, FALSE, "panic", NoIdx, 0)
            /\ UNCHANGED <<state, port, wbuf, wres, nwrites, nflush, led>>
       ELSE /\ state' = ZeroState
            /\ led' = AllOff
            /\ pc' = "connected"
            /\ port' = "open"
            /\ last' = Call("new", NoPos, FALSE, "ok", NoIdx, 0)
            /\ UNCHANGED <<wbuf, wres, nwrites, nflush>>

\* Cube::new
New(o, w) ==
    /\ pc = "start"
    /\ IF o = "err"
       THEN \* serial::open(port).unwrap() panics
            /\ pc' = "panicked"
            /\ last' = Call("new", NoPos, FALSE, "panic", NoIdx, 0)
            /\ UNCHANGED <<state, port, wbuf, wres, nwrites, nflush, led>>
       ELSE /\ state' = ZeroState
            /\ led' = AllOff
            /\ PortWrite(ZeroState, w)
            /\ IF flush_result(w) = "err"
               THEN \* try! returns the error; the cube and its port are dropped
                    /\ pc' = "failed"
                    /\ port' = "closed"
               ELSE /\ pc' = "connected"
                    /\ port' = "open"
            /\ last' = Call("new", NoPos, FALSE, flush_result(w), NoIdx, 0)
            /\ UNCHANGED nflush

\* a flush that resets the buffer when the write fails
FlushClearsOnError(w) ==
    /\ pc = "connected"
    /\ nwrites < MaxWrites
    /\ PortWrite(state, w)
    /\ nflush' = nflush + 1
    /\ state' = IF w = WriteErr THEN ZeroState ELSE state
    /\ last' = Call("flush", NoPos, FALSE, flush_result(w), NoIdx, 0)
    /\ UNCHANGED <<pc, port, led>>

\* a flush that writes a second time when the first write was not complete
FlushRetry(w) ==
    /\ pc = "connected"
    /\ nwrites < MaxWrites
    /\ wbuf' = state
    /\ wres' = w
    /\ nwrites' = IF w = BufLen THEN nwrites + 1 ELSE nwrites + 2
    /\ nflush' = nflush + 1
    /\ last' = Call("flush", NoPos, FALSE, flush_result(w), NoIdx, 0)
    /\ UNCHANGED <<pc, state, port, led>>

\* a flush that resets the buffer once it has been written
FlushConsumes(w) ==
    /\ pc = "connected"
    /\ nwrites < MaxWrites
    /\ PortWrite(state, w)
    /\ nflush' = nflush + 1
    /\ state' = IF w = WriteErr THEN state ELSE ZeroState
    /\ last' = Call("flush", NoPos, FALSE, flush_result(w), NoIdx, 0)
    /\ UNCHANGED <<pc, port, led>>

\* Cube::flush
Flush(w) ==
    /\ pc = "connected"
    /\ nwrites < MaxWrites
    /\ PortWrite(state, w)
    /\ nflush' = nflush + 1
    /\ last' = Call("flush", NoPos, FALSE, flush_result(w), NoIdx, 0)
    /\ UNCHANGED <<pc, state, port, led>>

\* a set that also writes the buffer to the port
SetAndFlush(pos, v) ==
    /\ pc = "connected"
    /\ LET r == set(state, pos, v)
       IN /\ state' = r.state
          /\ pc' = IF r.res = "panic" THEN "panicked" ELSE pc
          /\ led' = IF r.res = "panic" THEN led ELSE [led EXCEPT ![pos] = v]
          /\ last' = Call("set", pos, v, r.res, r.idx, r.mask)
          /\ wbuf' = r.state
          /\ wres' = BufLen
          /\ nwrites' = nwrites + 1
    /\ UNCHANGED <<port, nflush>>

\* Cube::set
Set(pos, v) ==
    /\ pc = "connected"
    /\ LET r == set(state, pos, v)
       IN /\ state' = r.state
          /\ pc' = IF r.res = "panic" THEN "panicked" ELSE pc
          /\ led' = IF r.res = "panic" THEN led ELSE [led EXCEPT ![pos] = v]
          /\ last' = Call("set", pos, v, r.res, r.idx, r.mask)
    /\ UNCHANGED <<port, wbuf, wres, nwrites, nflush>>

\* Cube::get
Get(pos) ==
    /\ pc = "connected"
    /\ LET r == get(state, pos)
       IN /\ state' = r.state
          /\ pc' = IF r.res = "panic" THEN "panicked" ELSE pc
          /\ last' = Call("get", pos, FALSE, r.res, r.idx, r.mask)
    /\ UNCHANGED <<port, wbuf, wres, nwrites, nflush, led>>

\* a clear that resets only the first byte
ClearFirstByte ==
    /\ pc = "connected"
    /\ state' = [state EXCEPT ![1] = 0]
    /\ led' = AllOff
    /\ last' = Call("clear", NoPos, FALSE, "unit", NoIdx, 0)
    /\ UNCHANGED <<pc, port, wbuf, wres, nwrites, nflush>>

\* Cube::clear
Clear ==
    /\ pc = "connected"
    /\ state' = ZeroState
    /\ led' = AllOff
    /\ last' = Call("clear", NoPos, FALSE, "unit", NoIdx, 0)
    /\ UNCHANGED <<pc, port, wbuf, wres, nwrites, nflush>>

\* ------------------------------------------------------------------------
\* Specification: one caller driving one cube with a few positions
\* ------------------------------------------------------------------------

\* positions the caller uses: two in one byte, two with the same bit in
\* different bytes, and one out of range along each axis
CallerPos ==
    { <<0, 0, 0>>, <<3, 0, 0>>, <<0, 3, 0>>,
      <<MaxCoord, 0, 0>>, <<0, MaxCoord, 0>>, <<0, 0, MaxCoord>> }

Next ==
    \/ \E o \in OpenResults, w \in WriteResults : New(o, w)
    \/ \E w \in WriteResults : Flush(w)
    \/ \E pos \in CallerPos, v \in BOOLEAN : Set(pos, v)
    \/ \E pos \in CallerPos : Get(pos)
    \/ Clear

Spec == Init /\ [][Next]_vars

\* ------------------------------------------------------------------------
\* Specification: set, get and clear over every position, on a connected
\* cube whose buffer is one of a few patterns the caller has already set
\* ------------------------------------------------------------------------

\* the n-th position of the sweep "for z, for y, for x" of the crate's example
SweepPos(n) == <<n % Side, (n \div Side) % Side, n \div (Side * Side)>>

RECURSIVE LitUpTo(_, _)
\* the buffer after set(c, true) for each of the first n sweep positions c in S
LitUpTo(S, n) ==
    IF n = 0 THEN ZeroState
    ELSE IF SweepPos(n - 1) \in S
         THEN set(LitUpTo(S, n - 1), SweepPos(n - 1), TRUE).state
         ELSE LitUpTo(S, n - 1)

\* the first layer of the sweep: the positions with z = 0
Layer == {c \in ValidPos : c[3] = 0}

\* the buffer after set(c, true) for every c of S, a part of Layer, on the
\* all-zero buffer
LitState(S) == LitUpTo(S, Side * Side)

\* patterns already lit: nothing, the whole layer, and a checkerboard of it
LitPatterns ==
    { {}, Layer, {c \in Layer : (c[1] + c[2]) % 2 = 0} }

InitAddr ==
    /\ pc = "connected"
    /\ port = "open"
    /\ wbuf = ZeroState
    /\ wres = BufLen
    /\ nwrites = 1
    /\ nflush = 0
    /\ \E S \in LitPatterns :
          /\ state = LitState(S)
          /\ led = [c \in ValidPos |-> c \in S]
    /\ last = Call("none", NoPos, FALSE, "none", NoIdx, 0)

\* the caller stays on one position until the next clear
SamePos(pos) == last.op \in {"none", "clear"} \/ last.pos = pos

AddrSet(pos, v) == SamePos(pos) /\ Set(pos, v)

AddrGet(pos) == SamePos(pos) /\ Get(pos)

NextAddr ==
    \/ \E pos \in AllPos, v \in BOOLEAN : AddrSet(pos, v)
    \/ \E pos \in AllPos : AddrGet(pos)
    \/ Clear

SpecAddr == InitAddr /\ [][NextAddr]_vars

\* ------------------------------------------------------------------------
\* Properties
\* ------------------------------------------------------------------------

\* the result get reports for an LED that is on (TRUE) or off (FALSE)
BoolRes(b) == IF b THEN "true" ELSE "false"

\* a position of the 4x4x4 cube, stated without check_bounds
InCube(pos) == pos[1] \in 0..3 /\ pos[2] \in 0..3 /\ pos[3] \in 0..3

\* number of bit positions in which the buffers a and b differ
DiffBits(a, b) ==
    Cardinality({ik \in (1..BufLen) \X (0..7) : Bit(a[ik[1]], ik[2]) # Bit(b[ik[1]], ik[2])})

\* C1: every flush makes exactly one write call whose argument is the whole
\* 16-byte buffer as it is at that moment, byte for byte in index order; when
\* no LED has been set since the last clear or new, the argument is 16 zeros.
C1_FlushWritesWholeBuffer ==
    [][last'.op = "flush" =>
          /\ nwrites' = nwrites + 1
          /\ Len(wbuf') = BufLen
          /\ \A i \in 1..BufLen : wbuf'[i] = state[i] /\ wbuf'[i] = state'[i]
          /\ (last.op \in {"clear", "new"} => wbuf' = [i \in 1..BufLen |-> 0])]_vars

\* C1 witness: a flush has just sent a buffer with LEDs lit
C1_Witness ==
    /\ last.op = "flush"
    /\ wbuf = state
    /\ \E i \in 1..BufLen : state[i] # 0

\* C2: the write calls seen by the transport, and so the bytes the device
\* observes, change only in a flush step or in new; set, get and clear leave
\* them alone.
C2_NoImplicitFlush ==
    [][(Device' # Device \/ wbuf' # wbuf \/ wres' # wres \/ nwrites' # nwrites)
          => last'.op \in {"flush", "new"}]_vars

\* C2 witness: after a set the buffer differs from the frame the device was
\* sent, and a get reports the buffer
C2_Witness ==
    /\ last.op = "get"
    /\ last.res = "true"
    /\ wres = BufLen
    /\ Device # state
    /\ nwrites > 1

\* C3: a flush whose write was short or failed never returns Ok.
C3_FlushOkOnlyIfFullWrite ==
    (last.op = "flush" /\ wres # BufLen) => last.res # "ok"

\* C4: a get of a valid position returns the value of the most recent set of
\* that position since the last clear or new; in particular a get right after
\* set(c, v) returns v.
C4_SetGetRoundTrip ==
    [][(last'.op = "get" /\ InCube(last'.pos)) =>
          /\ last'.res = BoolRes(led'[last'.pos])
          /\ ((last.op = "set" /\ last.pos = last'.pos) => last'.res = BoolRes(last.val))]_vars

\* C4 witness: a position that was lit has been set to false, and get of it
\* returned false while the rest of the layer is still lit
C4_Witness ==
    /\ last.op = "get"
    /\ last.res = "false"
    /\ last.pos \in Layer
    /\ state # ZeroState
    /\ state # LitState(Layer)
    /\ DiffBits(state, LitState(Layer)) = 1

\* C5: a set of position c leaves get(d) unchanged for every other valid
\* position d, and changes at most one bit of the buffer.
C5_SetNoAliasing ==
    [][last'.op = "set" =>
          /\ \A d \in ValidPos \ {last'.pos} : get(state', d).res = get(state, d).res
          /\ DiffBits(state, state') <= 1]_vars

\* C5 witness: a set turned one LED off in a byte whose other LEDs stay on
C5_Witness ==
    /\ last.op = "set"
    /\ last.res = "unit"
    /\ last.val = FALSE
    /\ state[last.idx + 1] # 0
    /\ BitAnd(state[last.idx + 1], last.mask) = 0

\* C6: for a valid position (x, y, z), set and get address byte
\* 4*(3-y)+(3-z), which is in 0..15, with mask 2^(3-x), one of 1, 2, 4, 8,
\* and set and get agree on both.
C6_AddressingFormula ==
    (last.op \in {"set", "get"} /\ InCube(last.pos)) =>
        /\ last.idx = 4 * (3 - last.pos[2]) + (3 - last.pos[3])
        /\ last.idx \in 0..15
        /\ last.mask = 2 ^ (3 - last.pos[1])
        /\ last.mask \in {1, 2, 4, 8}
        /\ set(state, last.pos, last.val).idx = get(state, last.pos).idx
        /\ set(state, last.pos, last.val).mask = get(state, last.pos).mask

\* C6 witness: get([1, 2, 3]) addressed byte 4, mask 0b0100
C6_Witness ==
    /\ last.op = "get"
    /\ last.pos = <<1, 2, 3>>
    /\ last.idx = 4
    /\ last.mask = 4

\* C7: no other valid position shares the (index, mask) pair of the position
\* just set or read, and the 64 valid positions fill the 64 pairs of
\* (0..15) x {1, 2, 4, 8}.
C7_AddressingInjective ==
    (last.op \in {"set", "get"} /\ InCube(last.pos)) =>
        /\ \A d \in ValidPos \ {last.pos} :
              /\ <<set(state, d, TRUE).idx, set(state, d, TRUE).mask>> # <<last.idx, last.mask>>
              /\ <<get(state, d).idx, get(state, d).mask>> # <<last.idx, last.mask>>
        /\ {<<set(state, d, TRUE).idx, set(state, d, TRUE).mask>> : d \in ValidPos}
              = (0..15) \X {1, 2, 4, 8}

\* C7 witness: set([3, 3, 3], true) used byte 0, mask 0b0001
C7_Witness ==
    /\ last.op = "set"
    /\ last.pos = <<3, 3, 3>>
    /\ last.val
    /\ last.idx = 0
    /\ last.mask = 1
    /\ state[1] = 1

\* C8: after clear every buffer byte is zero and get of every valid position
\* is false.
C8_ClearResets ==
    last.op = "clear" =>
        /\ \A i \in 1..BufLen : state[i] = 0
        /\ \A c \in ValidPos : get(state, c).res = "false"

\* C8 witness: a clear after a non-zero frame was flushed
C8_Witness ==
    /\ last.op = "clear"
    /\ wres = BufLen
    /\ \E i \in 1..BufLen : wbuf[i] # 0

\* C9: every buffer byte, and every byte handed to the transport, is in 0..15.
C9_NibbleInvariant ==
    /\ \A i \in 1..BufLen : state[i] \in 0..15
    /\ \A i \in DOMAIN wbuf : wbuf[i] \in 0..15

\* C9 witness: two LEDs of one byte are on and that byte was flushed
C9_Witness ==
    /\ last.op = "flush"
    /\ state[16] = 9
    /\ wbuf[16] = 9

\* C10: a set or get with a component >= 4 panics without addressing any
\* buffer index and leaves the buffer as it was.
C10_RangeViolationPanics ==
    [][(last'.op \in {"set", "get"} /\ ~InCube(last'.pos)) =>
          /\ last'.res = "panic"
          /\ pc' = "panicked"
          /\ last'.idx = NoIdx
          /\ state' = state]_vars

\* C10 witness: get([4, 0, 0]) panicked on a buffer with LEDs lit
C10_Witness ==
    /\ pc = "panicked"
    /\ last.op = "get"
    /\ last.pos = <<4, 0, 0>>
    /\ last.res = "panic"
    /\ state # ZeroState

\* C11: a flush whose write fails returns the error and leaves the buffer as
\* it was, so get of every valid position is the same before and after, and
\* a flush retried right after it passes the same 16 bytes to the transport.
C11_FailedFlushKeepsBuffer ==
    [][/\ (last'.op = "flush" /\ wres' = WriteErr) =>
             /\ last'.res = "err"
             /\ state' = state
             /\ \A c \in ValidPos : get(state', c).res = get(state, c).res
       /\ (last.op = "flush" /\ last.res = "err" /\ last'.op = "flush") =>
             /\ Len(wbuf') = BufLen
             /\ wbuf' = wbuf]_vars

\* C11 witness: the second flush of a buffer with two LEDs lit failed and the
\* buffer is still lit
C11_Witness ==
    /\ last.op = "flush"
    /\ last.res = "err"
    /\ wres = WriteErr
    /\ nflush = 2
    /\ state[16] = 9
    /\ wbuf = state

\* C12: when new returns a cube, the port is open, the buffer is all zero,
\* exactly one write call has been made and its argument was 16 zero bytes,
\* and get of every valid position is false.
C12_NewConnectsAllOff ==
    (last.op = "new" /\ pc = "connected") =>
        /\ last.res = "ok"
        /\ port = "open"
        /\ \A i \in 1..BufLen : state[i] = 0
        /\ nwrites = 1
        /\ nflush = 0
        /\ Len(wbuf) = BufLen
        /\ \A i \in 1..BufLen : wbuf[i] = 0
        /\ \A c \in ValidPos : get(state, c).res = "false"

\* C12 witness: new has just returned a cube whose initial write was accepted
\* in full
C12_Witness ==
    /\ last.op = "new"
    /\ pc = "connected"
    /\ wres = BufLen
    /\ nwrites = 1

\* C13: when the transport cannot be opened (new ends without any write
\* call), new returns an error to the caller; it does not panic.
C13_OpenFailureIsTypedError ==
    (last.op = "new" /\ nwrites = 0) =>
        /\ last.res = "err"
        /\ pc = "failed"

\* C14: when the port opens and the write of the initial flush fails, new
\* returns the error and no cube: the cube is never connected and no
\* operation follows.
C14_InitialFlushFailure ==
    [][/\ (last'.op = "new" /\ wres' = WriteErr) =>
             /\ last'.res = "err"
             /\ pc' = "failed"
             /\ port' = "closed"
       /\ pc # "failed"]_vars

\* C14 witness: new made its one write call, the write failed, new failed
C14_Witness ==
    /\ pc = "failed"
    /\ last.op = "new"
    /\ last.res = "err"
    /\ nwrites = 1
    /\ wres = WriteErr

\* the frame with only the LED at [0, 0, 0] on: byte 15 is 0b1000
FrameOrigin == [i \in 1..BufLen |-> IF i = 16 THEN 8 ELSE 0]

\* C15: on an all-zero buffer set([0, 0, 0], true) gives the buffer whose
\* byte 15 is 0b1000 and whose other bytes are zero, and the flush that
\* follows passes exactly that frame to the transport.
C15_OriginWiring ==
    [][/\ ((\A i \in 1..BufLen : state[i] = 0) /\ last'.op = "set"
              /\ last'.pos = <<0, 0, 0>> /\ last'.val) => state' = FrameOrigin
       /\ (last.op = "set" /\ last.pos = <<0, 0, 0>> /\ last.val
              /\ state = FrameOrigin /\ last'.op = "flush") => wbuf' = FrameOrigin]_vars

\* C15 witness: set([0, 0, 0], true) on the zero buffer was flushed
C15_Witness ==
    /\ last.op = "flush"
    /\ wbuf = FrameOrigin
    /\ state = FrameOrigin
    /\ led[<<0, 0, 0>>]
    /\ wres = BufLen

\* C16: every flush makes exactly one write call whatever the write returns,
\* so the number of write calls is the number of flush calls plus the one
\* of new.
C16_NoRetry ==
    /\ [](pc = "connected" => nwrites = nflush + 1)
    /\ [][last'.op = "flush" => (nwrites' = nwrites + 1 /\ nflush' = nflush + 1)]_vars

\* C16 witness: two flushes, the latest one failed, three write calls in all
C16_Witness ==
    /\ pc = "connected"
    /\ last.op = "flush"
    /\ last.res = "err"
    /\ nflush = 2
    /\ nwrites = 3

\* C17: the buffer is the bit-packing of led: bit 3-x of byte 4*(3-y)+(3-z)
\* is led[x, y, z] and bits 4..7 are zero; set(c, v) twice is set(c, v) once,
\* and the set just made commutes with a set of any other position.
C17_BufferRefinesLed ==
    /\ \A c \in ValidPos :
          Bit(state[4 * (3 - c[2]) + (3 - c[3]) + 1], 3 - c[1]) = (IF led[c] THEN 1 ELSE 0)
    /\ \A i \in 1..BufLen : state[i] < 16
    /\ (last.op = "set" /\ InCube(last.pos)) =>
          /\ set(state, last.pos, last.val).state = state
          /\ \A d \in ValidPos \ {last.pos}, v, w \in BOOLEAN :
                set(set(state, last.pos, v).state, d, w).state
                   = set(set(state, d, w).state, last.pos, v).state

\* C17 witness: an LED outside the lit layer was turned on next to the layer
C17_Witness ==
    /\ last.op = "set"
    /\ last.pos = <<2, 1, 3>>
    /\ last.val
    /\ led[<<2, 1, 3>>]
    /\ led[<<0, 0, 0>>]
    /\ state[9] = 2

\* C18: get and flush leave the buffer as it is, also when the flush
\* succeeds; get makes no write call; a flush right after a flush passes the
\* same frame.
C18_GetFlushFrame ==
    [][/\ last'.op \in {"get", "flush"} => (state' = state /\ led' = led)
       /\ last'.op = "get" => (wbuf' = wbuf /\ wres' = wres /\ nwrites' = nwrites)
       /\ (last.op = "flush" /\ last'.op = "flush") => wbuf' = wbuf]_vars

\* C18 witness: the second of two successful flushes of a lit buffer
C18_Witness ==
    /\ last.op = "flush"
    /\ last.res = "ok"
    /\ wres = BufLen
    /\ nflush = 2
    /\ state[4] = 8
    /\ wbuf = state

====
